---- MODULE Spec2Model ----
(***************************************************************************)
(* resources/models.py: the Resource class and its metaclass.              *)
(*                                                                         *)
(* A behaviour first registers resource classes (ResourceMetaclass.__new__ *)
(* runs once per class statement, the Resource base class first), then     *)
(* dispatches one request to an instance of the last registered class      *)
(* (Resource.__call__ -> Resource.process), one pipeline step per action.  *)
(* The instance is shared by the threads of the server: request, env, pc,  *)
(* response, log, called and output are those of the running thread, and   *)
(* a thread switch exchanges them with those of a suspended one.           *)
(* The module is Python 2 code: the __metaclass__ attribute of Resource is *)
(* what makes ResourceMetaclass create Resource and its subclasses.        *)
(*                                                                         *)
(* Python values are encoded as follows.                                   *)
(*   - an optional value (None, an absent header) is the empty tuple <<>>, *)
(*     a present value v is <<v>>;                                         *)
(*   - a tuple of strings is a sequence; the code only ever tests the      *)
(*     truthiness of allowed_methods and supported_*_types, so None and () *)
(*     are both the empty sequence there;                                  *)
(*   - a class is [name, base, attrs]: attrs is its own namespace (a       *)
(*     function from attribute names), base the index of its parent in     *)
(*     classes (0: object).  A handler attribute holds "function" when it  *)
(*     is callable.                                                        *)
(***************************************************************************)
EXTENDS Integers, Sequences, FiniteSets, TLC

VARIABLES
    classes,    \* the classes created so far, in creation order
    pending,    \* the class statements still to execute
    request,    \* the request handed to Resource.__call__
    env,        \* what the overridable hooks of the resource answer for it
    pc,         \* where the dispatch stands
    response,   \* the Response object of the dispatch
    log,        \* the checks and accessors evaluated so far, in order
    called,     \* the method handlers invoked so far, in order
    output,     \* what process() returned
    others      \* the dispatches of the other threads, as they stand

vars ==
    <<classes, pending, request, env, pc, response, log, called, output, others>>

----------------------------------------------------------------------------
(* Bounds of the model.                                                    *)

\* Longest explicit allowed_methods list a class statement declares.
MaxAllowLen == 2
\* Largest declared Content-Length of a request.
MaxContentLength == 3
\* Largest configured max_request_entity_length.
MaxEntityLength == 2
\* Instants (datetime values) are 0..MaxInstant, in ticks.
MaxInstant == 3

\* Ticks per second: a datetime is finer than the second http_date keeps.
TicksPerSecond == 2
\* Most media ranges an Accept header lists.
MaxAcceptLen == 2
\* Largest seconds delta an unavailable resource announces.
MaxRetryAfter == 2
\* Threads dispatching requests to the same resource instance.
MaxDispatches == 2

----------------------------------------------------------------------------
(* Python helpers.                                                         *)

None == <<>>

Some(v) == <<v>>

Range(s) == {s[i] : i \in 1..Len(s)}

\* bool(x) of an optional integer: None and 0 are falsy.
TruthyInt(o) == o # None /\ o[1] # 0

\* bool(x) of an optional string: None and '' are falsy.
TruthyStr(o) == o # None /\ o[1] # ""

\* list.remove(x): removes the first occurrence only.
RECURSIVE list_remove(_, _)
list_remove(s, x) ==
    IF s = <<>> THEN <<>>
    ELSE IF Head(s) = x THEN Tail(s)
    ELSE <<Head(s)>> \o list_remove(Tail(s), x)

\* The alphabetical rank of a method name (str comparison, for sorted()).
AlphaRank(m) ==
    CASE m = "DELETE" -> 1
      [] m = "GET" -> 2
      [] m = "HEAD" -> 3
      [] m = "OPTIONS" -> 4
      [] m = "PATCH" -> 5
      [] m = "POST" -> 6
      [] m = "PUT" -> 7

\* sorted(): insertion into a sorted list, stable.
RECURSIVE sorted_insert(_, _)
sorted_insert(s, x) ==
    IF s = <<>> THEN <<x>>
    ELSE IF AlphaRank(x) < AlphaRank(Head(s)) THEN <<x>> \o s
    ELSE <<Head(s)>> \o sorted_insert(Tail(s), x)

RECURSIVE sorted(_)
sorted(s) ==
    IF s = <<>> THEN <<>>
    ELSE sorted_insert(sorted(SubSeq(s, 1, Len(s) - 1)), s[Len(s)])

\* ', '.join(s)
RECURSIVE join(_)
join(s) ==
    IF s = <<>> THEN ""
    ELSE IF Len(s) = 1 THEN s[1]
    ELSE s[1] \o ", " \o join(Tail(s))

\* werkzeug.http.http_date: None is the current time; the result keeps
\* whole seconds only.
http_date(t, now) ==
    LET instant == IF t = None THEN now ELSE t[1]
    IN  "date:" \o ToString(instant \div TicksPerSecond)

----------------------------------------------------------------------------
(* resources/http.py                                                       *)

methods == <<"GET", "HEAD", "OPTIONS", "POST", "PUT", "DELETE", "PATCH">>

codes ==
    [ ok |-> 200, not_modified |-> 304, unauthorized |-> 401,
      forbidden |-> 403, not_found |-> 404, method_not_allowed |-> 405,
      not_acceptable |-> 406, gone |-> 410, precondition_failed |-> 412,
      request_entity_too_large |-> 413, unsupported_media_type |-> 415,
      precondition_required |-> 428, too_many_requests |-> 429,
      service_unavailable |-> 503 ]

\* str.lower() of a method name.
lower(m) ==
    CASE m = "GET" -> "get"
      [] m = "HEAD" -> "head"
      [] m = "OPTIONS" -> "options"
      [] m = "POST" -> "post"
      [] m = "PUT" -> "put"
      [] m = "DELETE" -> "delete"
      [] m = "PATCH" -> "patch"

----------------------------------------------------------------------------
(* Classes and attribute lookup.                                           *)

\* hasattr(cls, name), along the inheritance chain; cs are the classes
\* created before cls.
RECURSIVE hasattr(_, _, _)
hasattr(cs, cls, name) ==
    \/ name \in DOMAIN cls.attrs
    \/ cls.base # 0 /\ hasattr(cs, cs[cls.base], name)

\* getattr(cls, name) of an attribute that exists.
RECURSIVE getattr(_, _, _)
getattr(cs, cls, name) ==
    IF name \in DOMAIN cls.attrs THEN cls.attrs[name]
    ELSE getattr(cs, cs[cls.base], name)

\* cls.name = value
setattr(cls, name, value) ==
    [cls EXCEPT !.attrs =
        [k \in DOMAIN cls.attrs \cup {name} |->
            IF k = name THEN value ELSE cls.attrs[k]]]

\* usable = lambda x, y: callable(getattr(x, y, None))
usable(cs, cls, y) ==
    hasattr(cs, cls, y) /\ getattr(cs, cls, y) = "function"

----------------------------------------------------------------------------
(* ResourceMetaclass                                                       *)

\* The class body of Resource: its configuration defaults and the two
\* handlers it implements itself.
ResourceAttrs ==
    [ unavailable |-> [type |-> "bool", n |-> 0],
      allowed_methods |-> <<>>,
      rate_limit_count |-> None,
      rate_limit_seconds |-> Some(3600),
      max_request_entity_length |-> None,
      require_conditional_request |-> FALSE,
      use_etags |-> TRUE,
      use_last_modified |-> FALSE,
      supported_accept_types |-> <<"application/json">>,
      supported_content_types |-> <<>>,
      supported_patch_types |-> <<>>,
      head |-> "function",
      options |-> "function" ]

ResourceDef == [name |-> "Resource", base |-> 0, attrs |-> ResourceAttrs]

\* type.__new__(cls, name, bases, attrs)
type_new(def) == def

\* The test for deriving allowed_methods with the attribute looked up
\* along the inheritance chain.
derives_allowed_methods_inheriting(cs, new_cls) ==
    \/ ~hasattr(cs, new_cls, "allowed_methods")
    \/ getattr(cs, new_cls, "allowed_methods") = <<>>

\* Whether the metaclass derives allowed_methods from the handlers.
derives_allowed_methods(cs, new_cls) ==
    \/ "allowed_methods" \notin DOMAIN new_cls.attrs
    \/ getattr(cs, new_cls, "allowed_methods") = <<>>

\* The methods of `methods` with a callable handler, in that order.
derived_allowed_methods(cs, new_cls) ==
    SelectSeq(methods, LAMBDA method : usable(cs, new_cls, lower(method)))

\* allowed_methods before HEAD is looked at.
listed_allowed_methods(cs, new_cls) ==
    IF derives_allowed_methods(cs, new_cls)
    THEN derived_allowed_methods(cs, new_cls)
    ELSE getattr(cs, new_cls, "allowed_methods")

\* The validation looking at the first listed method only.
raises_value_error_first_only(cs, new_cls) ==
    /\ ~derives_allowed_methods(cs, new_cls)
    /\ ~usable(cs, new_cls, lower(getattr(cs, new_cls, "allowed_methods")[1]))

\* The ValueError of an explicit list naming a method that is not usable.
raises_value_error(cs, new_cls) ==
    /\ ~derives_allowed_methods(cs, new_cls)
    /\ \E i \in 1..Len(getattr(cs, new_cls, "allowed_methods")) :
          ~usable(cs, new_cls, lower(getattr(cs, new_cls, "allowed_methods")[i]))

\* If GET is not allowed, remove HEAD: list.remove takes out one entry.
remove_head(allowed_methods) ==
    IF "GET" \notin Range(allowed_methods) /\ "HEAD" \in Range(allowed_methods)
    THEN list_remove(allowed_methods, "HEAD")
    ELSE allowed_methods

\* supported_content_types falls back to supported_accept_types.
default_content_types(cs, c) ==
    IF getattr(cs, c, "supported_content_types") = <<>>
    THEN setattr(c, "supported_content_types",
                 getattr(cs, c, "supported_accept_types"))
    ELSE c

\* supported_patch_types falls back to supported_content_types.
default_patch_types(cs, c) ==
    IF getattr(cs, c, "supported_patch_types") = <<>>
    THEN setattr(c, "supported_patch_types",
                 getattr(cs, c, "supported_content_types"))
    ELSE c

\* ResourceMetaclass.__new__ when it raises nothing: the class it returns.
metaclass_new(cs, def) ==
    LET new_cls == type_new(def)
        c1 == setattr(new_cls, "allowed_methods",
                      remove_head(listed_allowed_methods(cs, new_cls)))
        c2 == default_content_types(cs, c1)
    IN  default_patch_types(cs, c2)

\* self.<name> of an instance of the class dispatched to (the last one
\* created).
self(name) == getattr(classes, classes[Len(classes)], name)

----------------------------------------------------------------------------
(* The request (werkzeug's Request) and the response (werkzeug's Response) *)

\* request.mimetype: the Content-Type without its parameters, lower-cased.
mimetype(content_type) ==
    IF content_type = None THEN ""
    ELSE CASE content_type[1] = "application/json; charset=utf-8" -> "application/json"
           [] content_type[1] = "Application/JSON" -> "application/json"
           [] OTHER -> content_type[1]

\* The rank of a media range in str order.
MimeRank(m) ==
    CASE m = "*/*" -> 1
      [] m = "application/json" -> 2
      [] m = "text/*" -> 3
      [] m = "text/html" -> 4
      [] m = "text/plain" -> 5

\* The two halves of a media range, x.split('/', 1).
mime_type(m) ==
    CASE m = "*/*" -> "*"
      [] m = "application/json" -> "application"
      [] OTHER -> "text"

mime_subtype(m) ==
    CASE m = "*/*" -> "*"
      [] m = "application/json" -> "json"
      [] m = "text/*" -> "*"
      [] m = "text/html" -> "html"
      [] m = "text/plain" -> "plain"

\* MIMEAccept._specificity: how many halves of the range are not '*'.
specificity(m) ==
    (IF mime_type(m) # "*" THEN 1 ELSE 0) + (IF mime_subtype(m) # "*" THEN 1 ELSE 0)

\* The orders werkzeug's Accept.__init__ has given the parsed (value,
\* quality) pairs over its releases: sorted by (quality, value) and
\* reversed; sorted by (specificity, quality, value), reversed; sorted by
\* (specificity, quality), reversed, pairs with equal keys staying in listed
\* order.
AcceptOrders ==
    {"quality, value", "specificity, quality, value", "specificity, quality"}

\* Whether the pair x sorts strictly before the pair y.
accept_precedes(order, x, y) ==
    LET by_value == MimeRank(x.value) > MimeRank(y.value)
        by_quality(tie) == x.q > y.q \/ (x.q = y.q /\ tie)
    IN  CASE order = "quality, value" -> by_quality(by_value)
          [] order = "specificity, quality, value" ->
               \/ specificity(x.value) > specificity(y.value)
               \/ specificity(x.value) = specificity(y.value) /\ by_quality(by_value)
          [] order = "specificity, quality" ->
               \/ specificity(x.value) > specificity(y.value)
               \/ specificity(x.value) = specificity(y.value) /\ by_quality(FALSE)

\* The insertion of a pair listed before every pair of the sorted list s.
RECURSIVE accept_insert(_, _, _)
accept_insert(order, s, x) ==
    IF s = <<>> THEN <<x>>
    ELSE IF accept_precedes(order, Head(s), x)
         THEN <<Head(s)>> \o accept_insert(order, Tail(s), x)
         ELSE <<x>> \o s

\* request.accept_mimetypes of a parsed Accept header.
RECURSIVE accept_mimetypes(_, _)
accept_mimetypes(order, items) ==
    IF items = <<>> THEN <<>>
    ELSE accept_insert(order, accept_mimetypes(order, Tail(items)), Head(items))

\* MIMEAccept._value_matches(value, item)
value_matches(value, item) ==
    \/ mime_type(item) = "*" /\ mime_subtype(item) = "*"
    \/ mime_type(value) = "*" /\ mime_subtype(value) = "*"
    \/ /\ mime_type(item) = mime_type(value)
       /\ \/ mime_subtype(item) = "*"
          \/ mime_subtype(value) = "*"
          \/ mime_subtype(item) = mime_subtype(value)

\* Accept.__getitem__(key): the quality of the first item the key matches,
\* 0 when there is none.
RECURSIVE accept_quality(_, _)
accept_quality(accept, key) ==
    IF accept = <<>> THEN 0
    ELSE IF value_matches(key, Head(accept).value) THEN Head(accept).q
    ELSE accept_quality(Tail(accept), key)

\* Response()
NewResponse ==
    [status |-> codes.ok, headers |-> <<>>, data |-> "", accept_type |-> None]

\* response.headers[name] = value
set_header(resp, name, value) ==
    [resp EXCEPT !.headers =
        [k \in DOMAIN resp.headers \cup {name} |->
            IF k = name THEN value ELSE resp.headers[k]]]

----------------------------------------------------------------------------
(* Response status code handlers.  One that writes to the response is a    *)
(* record [fails, response]; the others are booleans.                      *)

unavailable_truthy(u) ==
    \/ u.type = "bool" /\ u.n = 1
    \/ u.type = "int" /\ u.n # 0
    \/ u.type = "datetime"

retry_after(u) ==
    IF u.type = "int" /\ u.n > 0 THEN Some(ToString(u.n))
    ELSE IF u.type = "datetime" THEN Some(http_date(Some(u.n), env.now))
    ELSE None

check_service_unavailable(resp) ==
    LET u == self("unavailable")
    IN  IF unavailable_truthy(u)
        THEN [fails |-> TRUE,
              response |-> IF TruthyStr(retry_after(u))
                           THEN set_header(resp, "Retry-After", retry_after(u)[1])
                           ELSE resp]
        ELSE [fails |-> FALSE, response |-> resp]

\* The hooks a resource overrides answer what env holds for the request.
check_unauthorized == env.unauthorized

check_forbidden == env.forbidden

check_too_many_requests == env.too_many_requests

check_not_found == env.not_found

check_gone == env.gone

get_etag == env.etag

get_last_modified == env.last_modified

check_request_entity_too_large ==
    request.content_length[1] > self("max_request_entity_length")[1]

\* check_method_not_allowed with the Allow header left in listed order.
check_method_not_allowed_unsorted(resp) ==
    IF request.method \notin Range(self("allowed_methods"))
    THEN [fails |-> TRUE,
          response |-> set_header(resp, "Allow", join(self("allowed_methods")))]
    ELSE [fails |-> FALSE, response |-> resp]

check_method_not_allowed(resp) ==
    IF request.method \notin Range(self("allowed_methods"))
    THEN [fails |-> TRUE,
          response |-> set_header(resp, "Allow", join(sorted(self("allowed_methods"))))]
    ELSE [fails |-> FALSE, response |-> resp]

\* content_type_supported on the Content-Type header as sent, parameters
\* and case included.
content_type_supported_as_sent ==
    /\ request.content_type # None
    /\ request.content_type[1] \in Range(self("supported_content_types"))

content_type_supported ==
    mimetype(request.content_type) \in Range(self("supported_content_types"))

content_encoding_supported == TRUE

content_language_supported == TRUE

check_unsupported_media_type ==
    /\ request.content_type # None
    /\ TruthyStr(request.content_type)
    /\ \/ ~content_type_supported
       \/ request.content_encoding # None /\ ~content_encoding_supported
       \/ request.content_language # None /\ ~content_language_supported

\* The last of the client's media types the resource supports, 0 if none.
last_supported(accept) ==
    LET hits == {i \in 1..Len(accept) :
                    accept[i].value \in Range(self("supported_accept_types"))}
    IN  IF hits = {} THEN 0 ELSE CHOOSE i \in hits : \A j \in hits : i >= j

\* The first of the client's media types the resource supports, 0 if none.
first_supported(accept) ==
    LET hits == {i \in 1..Len(accept) :
                    accept[i].value \in Range(self("supported_accept_types"))}
    IN  IF hits = {} THEN 0 ELSE CHOOSE i \in hits : \A j \in hits : i <= j

\* Falls back to the first of supported_accept_types.
default_accept_type(resp) ==
    IF Len(self("supported_accept_types")) # 0
    THEN [resp EXCEPT !.accept_type = Some(self("supported_accept_types")[1])]
    ELSE resp

\* [ok, response]
accept_type_supported(resp) ==
    IF request.accept # None
    THEN LET accept == accept_mimetypes(env.accept_order, request.accept[1])
             hit == first_supported(accept)
         IN  IF hit # 0
             THEN [ok |-> TRUE,
                   response |-> [resp EXCEPT !.accept_type = Some(accept[hit].value)]]
             ELSE IF ~(accept_quality(accept, "*/*") = 0)
             THEN [ok |-> FALSE, response |-> resp]
             ELSE [ok |-> TRUE, response |-> default_accept_type(resp)]
    ELSE [ok |-> TRUE, response |-> default_accept_type(resp)]

accept_charset_supported == TRUE

accept_encoding_supported == TRUE

accept_language_supported == TRUE

check_not_acceptable(resp) ==
    LET r == accept_type_supported(resp)
    IN  [fails |->
            \/ ~r.ok
            \/ request.accept_language # None /\ ~accept_language_supported
            \/ request.accept_charset # None /\ ~accept_charset_supported
            \/ request.accept_encoding # None /\ ~accept_encoding_supported,
         response |-> r.response]

check_precondition_required(resp) ==
    IF self("use_etags") /\ request.if_match = None
    THEN [fails |-> TRUE,
          response |-> [resp EXCEPT !.data =
              "This request is required to be conditional; try using \"If-Match\""]]
    ELSE IF self("use_last_modified") /\ request.if_unmodified_since = None
    THEN [fails |-> TRUE,
          response |-> [resp EXCEPT !.data =
              "This request is required to be conditional; try using \"If-Unmodified-Since\""]]
    ELSE [fails |-> FALSE, response |-> resp]

\* The If-Match half with the comparison inverted.
if_match_fails_on_equal ==
    /\ self("use_etags")
    /\ request.if_match # None
    /\ request.if_match = get_etag

\* The If-Match half of check_precondition_failed.
if_match_fails ==
    /\ self("use_etags")
    /\ request.if_match # None
    /\ request.if_match # get_etag

\* The If-Unmodified-Since half, reached when the first half does not fail.
if_unmodified_since_fails ==
    /\ self("use_last_modified")
    /\ request.if_unmodified_since # None
    /\ request.if_unmodified_since[1] # http_date(get_last_modified, env.now)

check_precondition_failed == if_match_fails \/ if_unmodified_since_fails

\* The accessors check_precondition_failed calls, in order.
precondition_failed_calls ==
    (IF self("use_etags") /\ request.if_match # None
     THEN <<"get_etag">> ELSE <<>>)
    \o (IF /\ ~if_match_fails
           /\ self("use_last_modified")
           /\ request.if_unmodified_since # None
        THEN <<"get_last_modified">> ELSE <<>>)

\* The If-None-Match test without the comparison of the tags.
if_none_match_hits_any ==
    /\ self("use_etags")
    /\ request.if_none_match # None

\* Conditional GET or HEAD: the If-None-Match test.
if_none_match_hits ==
    /\ self("use_etags")
    /\ request.if_none_match # None
    /\ request.if_none_match = get_etag

\* Conditional GET or HEAD: the If-Modified-Since test, reached when the
\* If-None-Match one does not answer.
if_modified_since_hits ==
    /\ self("use_last_modified")
    /\ request.if_modified_since # None
    /\ request.if_modified_since[1] = http_date(get_last_modified, env.now)

not_modified == if_none_match_hits \/ if_modified_since_hits

\* The accessors the conditional GET or HEAD test calls, in order.
not_modified_calls ==
    (IF self("use_etags") /\ request.if_none_match # None
     THEN <<"get_etag">> ELSE <<>>)
    \o (IF /\ ~if_none_match_hits
           /\ self("use_last_modified")
           /\ request.if_modified_since # None
        THEN <<"get_last_modified">> ELSE <<>>)

----------------------------------------------------------------------------
(* The inputs: class statements, requests and hook answers.  A scenario    *)
(* names a family of them, and a specification draws from one scenario.    *)

\* The configuration attributes of a class statement that sets them all.
Config(unavailable, count, length, conditional, etags, last_modified) ==
    [ unavailable |-> unavailable,
      rate_limit_count |-> count,
      max_request_entity_length |-> length,
      require_conditional_request |-> conditional,
      use_etags |-> etags,
      use_last_modified |-> last_modified ]

\* class <name>(Resource) with the configuration attributes config, a
\* handler for each name of handlers, and allowed_methods when explicit is
\* not None.
ClassDef(name, config, handlers, explicit) ==
    [ name |-> name, base |-> 1,
      attrs |->
        [k \in DOMAIN config \cup handlers
               \cup (IF explicit = None THEN {} ELSE {"allowed_methods"}) |->
            IF k \in handlers THEN "function"
            ELSE IF k = "allowed_methods" THEN explicit[1]
            ELSE config[k]] ]

Available == [type |-> "bool", n |-> 0]

Unavailable == [type |-> "bool", n |-> 1]

AllHandlers == {"get", "put", "post", "delete", "patch"}

\* The sequences over S of length 1..n.
SeqsUpTo(S, n) == UNION {[1..k -> S] : k \in 1..n}

\* A request with the method, the declared Content-Length and Content-Type,
\* and the headers Accept, If-Match, If-None-Match, If-Unmodified-Since and
\* If-Modified-Since.
Request(method, length, type, accept, im, inm, ius, ims) ==
    [ method |-> method,
      content_length |-> length,
      content_type |-> type,
      content_encoding |-> None,
      content_language |-> None,
      accept |-> accept,
      accept_language |-> None,
      accept_charset |-> None,
      accept_encoding |-> None,
      if_match |-> im,
      if_none_match |-> inm,
      if_unmodified_since |-> ius,
      if_modified_since |-> ims ]

\* What the hooks of a resource answer for a request, the current time, the
\* order the installed werkzeug keeps an Accept header in, and what the
\* resource's own handlers do.
Hooks(unauthorized, forbidden, limited, not_found, gone, etag, modified, now) ==
    [ unauthorized |-> unauthorized,
      forbidden |-> forbidden,
      too_many_requests |-> limited,
      not_found |-> not_found,
      gone |-> gone,
      etag |-> etag,
      last_modified |-> modified,
      now |-> now,
      accept_order |-> "quality, value",
      handler |-> [ret |-> Some("representation"), data |-> None, etag |-> None] ]

\* The value of request before Resource.__call__ receives one.
NoRequest == Request("GET", None, None, None, None, None, None, None)

\* The hooks of Resource itself: every check passes, the accessors return
\* None.
DefaultHooks == Hooks(FALSE, FALSE, FALSE, FALSE, FALSE, None, None, 0)

\* A request entity: its declared length and Content-Type.
PipelineEntities ==
    { <<None, None>>, <<Some(1), Some("application/json")>>,
      <<Some(1), Some("text/plain")>>,
      <<Some(MaxContentLength), Some("application/json")>> }

\* The conditional headers of a request: If-Match, If-None-Match.
PipelineConditions ==
    { <<None, None>>, <<Some("abc"), None>>, <<Some("xyz"), None>>,
      <<None, Some("abc")>>, <<None, Some("xyz")>> }

\* The instants of the model, and the HTTP dates a header can carry.
Instants == 0..MaxInstant

HttpDates == {http_date(Some(t), 0) : t \in Instants}

ETags == {"abc", "xyz"}

Optional(S) == {None} \cup {Some(v) : v \in S}

\* What a handler of the resource does: the value it returns, the body it
\* writes to the response and the ETag header it sets, each or none.
HandlerEffects ==
    [ ret : Optional({"representation"}), data : Optional({"written"}),
      etag : Optional({"abc"}) ]

\* The values of the unavailable attribute: False and True, a seconds
\* delta, a datetime.
UnavailableSettings ==
    {Available, Unavailable}
        \cup {[type |-> "int", n |-> n] : n \in -1..MaxRetryAfter}
        \cup {[type |-> "datetime", n |-> t] : t \in Instants}

\* The media ranges a client lists and the qualities it gives them, in
\* tenths: q=0, q=0.5 and q=1.
MediaRanges == {"*/*", "application/json", "text/*", "text/html", "text/plain"}

Qualities == {0, 5, 10}

\* The parsed Accept headers: an empty one, and the lists of up to
\* MaxAcceptLen ranges.
AcceptHeaders ==
    {<<>>} \cup SeqsUpTo([value : MediaRanges, q : Qualities], MaxAcceptLen)

\* The class statements of a parent class: every set of handlers with every
\* allowed_methods.
Parents ==
    { ClassDef("Parent", <<>>, h, e) :
        h \in SUBSET {"get", "put", "delete"},
        e \in {None} \cup {Some(l) : l \in SeqsUpTo(Range(methods), MaxAllowLen)} }

\* The class statements of a class derived from the second class created:
\* handlers of its own, allowed_methods left out or empty, and delete left
\* alone or overridden by a value that is not callable.
Children ==
    { [ClassDef("Child", c, h, e) EXCEPT !.base = 2] :
        c \in {<<>>, [delete |-> "not callable"]},
        h \in SUBSET {"get", "post"},
        e \in {None, Some(<<>>)} }

Defs(s) ==
    CASE s = "pipeline" ->
           { ClassDef("Pipeline", Config(u, r, m, c, TRUE, FALSE), h[1], h[2]) :
               u \in {Available, Unavailable},
               r \in {None, Some(1)},
               m \in {None, Some(MaxEntityLength)},
               c \in BOOLEAN,
               h \in { <<AllHandlers, None>>, <<{"get"}, Some(<<"GET", "HEAD">>)>> } }
      [] s = "conditional" ->
           { ClassDef("Conditional", Config(Available, None, None, c, e, l),
                      AllHandlers, None) :
               c \in BOOLEAN, e \in BOOLEAN, l \in BOOLEAN }
      [] s = "entity" ->
           { ClassDef("Entity", Config(Available, None, m, FALSE, TRUE, FALSE),
                      AllHandlers, None) :
               m \in Optional(0..MaxEntityLength) }
      [] s = "concurrent" ->
           { ClassDef("Shared", Config(Available, None, None, FALSE, TRUE, FALSE),
                      {"get", "put"}, None) }
      [] s = "bodies" ->
           { ClassDef("Bodies",
                      Config(Available, None, Some(MaxEntityLength), FALSE, TRUE, FALSE),
                      {"get", "put", "delete"}, None) }
      [] s = "patch" ->
           { ClassDef("Patched",
                      [supported_content_types |-> <<"application/json">>,
                       supported_patch_types |-> t],
                      {"get", "put", "patch"}, None) :
               t \in { <<>>, <<"application/json">>, <<"text/plain">>,
                       <<"text/plain", "application/json">> } }
      [] s = "handlers" ->
           { ClassDef("Document", Config(Available, None, None, FALSE, TRUE, FALSE),
                      h, None) :
               h \in {{"get"}, {"get", "put"}, {"put"}} }
      [] s = "availability" ->
           { ClassDef("Downtime", [unavailable |-> u], {"get"}, None) :
               u \in UnavailableSettings }
      [] s = "negotiation" ->
           { ClassDef("Negotiated", [supported_accept_types |-> t], {"get"}, None) :
               t \in { <<>>, <<"application/json">>,
                       <<"application/json", "text/html">>,
                       <<"text/html", "application/json">> } }
      [] s = "registration" ->
           { ClassDef("Registered", <<>>, h, e) :
               h \in SUBSET {"get", "put", "delete"},
               e \in {None, Some(<<>>)}
                     \cup {Some(l) : l \in SeqsUpTo(Range(methods), MaxAllowLen)} }

Requests(s) ==
    CASE s = "pipeline" ->
           { Request(m, e[1], e[2], a, c[1], c[2], None, None) :
               m \in Range(methods),
               e \in PipelineEntities,
               a \in {None, Some(<<[value |-> "text/plain", q |-> 10]>>)},
               c \in PipelineConditions }
      [] s = "conditional" ->
           { Request(m, None, None, None, c[1], c[2], c[3], c[4]) :
               m \in {"GET", "HEAD", "PUT", "PATCH", "DELETE"},
               c \in Optional(ETags) \X Optional(ETags)
                     \X Optional(HttpDates) \X Optional(HttpDates) }
      [] s = "entity" ->
           { [Request(m, l, t, None, None, None, None, None)
                 EXCEPT !.content_encoding = c[1], !.content_language = c[2]] :
               m \in Range(methods),
               l \in Optional(0..MaxContentLength),
               t \in Optional({"", "application/json", "Application/JSON",
                               "application/json; charset=utf-8", "text/plain"}),
               c \in {<<None, None>>, <<Some("gzip"), Some("en")>>} }
      [] s = "concurrent" ->
           { Request(m[1], None, None, m[2], None, None, None, None) :
               m \in { <<"GET", None>>, <<"OPTIONS", None>>, <<"DELETE", None>>,
                       <<"GET", Some(<<[value |-> "text/plain", q |-> 10]>>)>> } }
      [] s = "bodies" ->
           { [Request(m, e[1], e[2], None, None, None, None, None)
                 EXCEPT !.content_encoding = e[3], !.content_language = e[3]] :
               m \in {"GET", "OPTIONS", "DELETE"},
               e \in { <<None, None, None>>,
                       <<Some(1), Some("text/plain"), None>>,
                       <<Some(MaxEntityLength + 1), Some("application/json"),
                         Some("en")>> } }
      [] s = "inheritance" ->
           { Request(m, None, None, None, None, None, None, None) :
               m \in {"GET", "DELETE"} }
      [] s = "patch" ->
           { Request(m, l, t, None, None, None, None, None) :
               m \in {"PATCH", "PUT", "OPTIONS"},
               l \in {None, Some(1)},
               t \in Optional({"", "application/json", "text/plain", "text/html"}) }
      [] s = "handlers" ->
           { Request(m, None, None, None, None, c, None, None) :
               m \in {"GET", "HEAD", "PUT"}, c \in Optional(ETags) }
      [] s = "availability" ->
           { Request(m, None, None, None, None, None, None, None) :
               m \in Range(methods) }
      [] s = "negotiation" ->
           { Request("GET", None, None, a, None, None, None, None) :
               a \in Optional(AcceptHeaders) }
      [] s = "registration" ->
           { Request(m, e[1], e[2], None, None, None, None, None) :
               m \in Range(methods),
               e \in {<<None, None>>, <<Some(1), Some("text/plain")>>} }

Envs(s) ==
    CASE s = "pipeline" ->
           { Hooks(b[1], b[2], b[3], b[4], b[5], Some(t), None, 0) :
               b \in [1..5 -> BOOLEAN], t \in ETags }
      [] s = "conditional" ->
           { Hooks(FALSE, FALSE, FALSE, FALSE, FALSE, t, l, n) :
               t \in {None, Some("abc")},
               l \in Optional(Instants),
               n \in {0, MaxInstant} }
      [] s = "entity" -> {DefaultHooks}
      [] s = "concurrent" ->
           { Hooks(FALSE, FALSE, FALSE, b, FALSE, None, None, 0) : b \in BOOLEAN }
      [] s = "bodies" -> {DefaultHooks}
      [] s = "inheritance" -> {DefaultHooks}
      [] s = "patch" -> {DefaultHooks}
      [] s = "handlers" ->
           { [Hooks(FALSE, FALSE, FALSE, FALSE, FALSE, t, None, 0)
                 EXCEPT !.handler = h] :
               t \in Optional({"abc"}), h \in HandlerEffects }
      [] s = "availability" ->
           { Hooks(b, FALSE, FALSE, FALSE, FALSE, None, None, n) :
               b \in BOOLEAN, n \in Instants }
      [] s = "negotiation" ->
           { [DefaultHooks EXCEPT !.accept_order = o] : o \in AcceptOrders }
      [] s = "registration" -> {DefaultHooks}

\* The class statements a module executes after that of Resource.
Chains(s) ==
    IF s = "inheritance" THEN {<<p, c>> : p \in Parents, c \in Children}
    ELSE {<<d>> : d \in Defs(s)}

\* A thread that has not received its request yet.
NotDispatched ==
    [ request |-> NoRequest, env |-> DefaultHooks, pc |-> "import",
      response |-> NewResponse, log |-> <<>>, called |-> <<>>, output |-> None ]

\* The threads of a scenario.
Dispatches(s) == IF s \in {"concurrent", "bodies"} THEN MaxDispatches ELSE 1

InitOf(s) ==
    /\ classes = <<>>
    /\ pending \in {<<ResourceDef>> \o c : c \in Chains(s)}
    /\ request = NoRequest
    /\ env = DefaultHooks
    /\ pc = "import"
    /\ response = NewResponse
    /\ log = <<>>
    /\ called = <<>>
    /\ output = None
    /\ others = [i \in 1..(Dispatches(s) - 1) |-> NotDispatched]

----------------------------------------------------------------------------
(* Resource.process: the order of its steps.                               *)

\* process() with the allowed-method check moved ahead of the entity checks.
process_order_method_first ==
    << "check_service_unavailable", "check_unauthorized", "check_forbidden",
       "check_too_many_requests", "options", "check_method_not_allowed",
       "check_unsupported_media_type", "check_request_entity_too_large",
       "check_not_acceptable", "check_not_found", "check_gone",
       "check_precondition_required", "check_precondition_failed",
       "not_modified", "handler" >>

\* process() with the existence checks moved ahead of the authorization
\* checks.
process_order_existence_first ==
    << "check_service_unavailable", "check_not_found", "check_gone",
       "check_unauthorized", "check_forbidden",
       "check_too_many_requests", "options", "check_unsupported_media_type",
       "check_request_entity_too_large", "check_method_not_allowed",
       "check_not_acceptable",
       "check_precondition_required", "check_precondition_failed",
       "not_modified", "handler" >>

process_order ==
    << "check_service_unavailable", "check_unauthorized", "check_forbidden",
       "check_too_many_requests", "options", "check_unsupported_media_type",
       "check_request_entity_too_large", "check_method_not_allowed",
       "check_not_acceptable", "check_not_found", "check_gone",
       "check_precondition_required", "check_precondition_failed",
       "not_modified", "handler" >>

\* The step that follows `step` when it does not return.
after(step) ==
    LET i == CHOOSE k \in 1..Len(process_order) : process_order[k] = step
    IN  process_order[i + 1]

\* process() with the return of a failing step left out.
next_pc_falls_through(step, fails) == after(step)

\* Where process() stands after a step: a step that fails returns.
next_pc(step, fails) == IF fails THEN "return" ELSE after(step)

\* One check of process(): when `applies`, the check is evaluated (entries
\* are the accessors it called and the check itself, in the order they
\* returned), and a failure sets the status and returns.
Check(step, applies, fails, resp, status, entries) ==
    /\ pc = step
    /\ IF applies
       THEN /\ log' = log \o entries
            /\ response' = IF fails THEN [resp EXCEPT !.status = status] ELSE resp
            /\ pc' = next_pc(step, fails)
       ELSE /\ pc' = after(step)
            /\ UNCHANGED <<log, response>>
    /\ UNCHANGED <<classes, pending, request, env, called, output, others>>

\* A log entry: a check or accessor, and whether it reported failure.
Entry(check, fails) == [check |-> check, fails |-> fails]

----------------------------------------------------------------------------
(* Actions                                                                 *)

\* A class statement: ResourceMetaclass.__new__ creates the class, or
\* raises ValueError.
Register ==
    /\ pc = "import"
    /\ pending # <<>>
    /\ IF raises_value_error(classes, type_new(Head(pending)))
       THEN /\ pc' = "config_error"
            /\ UNCHANGED <<classes, pending>>
       ELSE /\ classes' = Append(classes, metaclass_new(classes, Head(pending)))
            /\ pending' = Tail(pending)
            /\ pc' = pc
    /\ UNCHANGED <<request, env, response, log, called, output, others>>

\* Resource.__call__ on a request of the scenario s: a new response, then
\* process().
Call(s) ==
    /\ pc = "import"
    /\ pending = <<>>
    /\ request' \in Requests(s)
    /\ env' \in Envs(s)
    /\ response' = NewResponse
    /\ pc' = process_order[1]
    /\ UNCHANGED <<classes, pending, log, called, output, others>>

ServiceUnavailable ==
    LET r == check_service_unavailable(response)
    IN  Check("check_service_unavailable", TRUE, r.fails, r.response,
              codes.service_unavailable,
              <<Entry("check_service_unavailable", r.fails)>>)

Unauthorized ==
    Check("check_unauthorized", TRUE, check_unauthorized, response,
          codes.unauthorized, <<Entry("check_unauthorized", check_unauthorized)>>)

Forbidden ==
    Check("check_forbidden", TRUE, check_forbidden, response,
          codes.forbidden, <<Entry("check_forbidden", check_forbidden)>>)

TooManyRequests ==
    Check("check_too_many_requests",
          TruthyInt(self("rate_limit_count")) /\ TruthyInt(self("rate_limit_seconds")),
          check_too_many_requests, response, codes.too_many_requests,
          <<Entry("check_too_many_requests", check_too_many_requests)>>)

\* Resource.options with the Allow header left unsorted.
options_unsorted(resp) ==
    LET r1 == IF "PATCH" \in Range(self("allowed_methods"))
              THEN set_header(resp, "Accept-Patch", join(self("supported_patch_types")))
              ELSE resp
        r2 == set_header(r1, "Allow", join(self("allowed_methods")))
        r3 == set_header(r2, "Content-Length", "0")
        r4 == set_header(r3, "Cache-Control", "no-cache")
    IN  set_header(r4, "Pragma", "no-cache")

\* Resource.options
options(resp) ==
    LET r1 == IF "PATCH" \in Range(self("allowed_methods"))
              THEN set_header(resp, "Accept-Patch", join(self("supported_patch_types")))
              ELSE resp
        r2 == set_header(r1, "Allow", join(sorted(self("allowed_methods"))))
        r3 == set_header(r2, "Content-Length", "0")
        r4 == set_header(r3, "Cache-Control", "no-cache")
    IN  set_header(r4, "Pragma", "no-cache")

\* Whether process() answers the request with the OPTIONS handler.
options_applies ==
    request.method = "OPTIONS" /\ "OPTIONS" \in Range(self("allowed_methods"))

\* An OPTIONS request is answered before the remaining checks.
Options ==
    /\ pc = "options"
    /\ IF options_applies
       THEN /\ response' = options(response)
            /\ called' = Append(called, "options")
            /\ pc' = "return"
       ELSE /\ pc' = after("options")
            /\ UNCHANGED <<response, called>>
    /\ UNCHANGED <<classes, pending, request, env, log, output, others>>

UnsupportedMediaType ==
    Check("check_unsupported_media_type", TruthyInt(request.content_length),
          check_unsupported_media_type, response, codes.unsupported_media_type,
          <<Entry("check_unsupported_media_type", check_unsupported_media_type)>>)

RequestEntityTooLarge ==
    Check("check_request_entity_too_large",
          TruthyInt(request.content_length) /\ TruthyInt(self("max_request_entity_length")),
          check_request_entity_too_large, response, codes.request_entity_too_large,
          <<Entry("check_request_entity_too_large", check_request_entity_too_large)>>)

MethodNotAllowed ==
    LET r == check_method_not_allowed(response)
    IN  Check("check_method_not_allowed", TRUE, r.fails, r.response,
              codes.method_not_allowed,
              <<Entry("check_method_not_allowed", r.fails)>>)

NotAcceptable ==
    LET r == check_not_acceptable(response)
    IN  Check("check_not_acceptable", TRUE, r.fails, r.response,
              codes.not_acceptable, <<Entry("check_not_acceptable", r.fails)>>)

NotFound ==
    Check("check_not_found", TRUE, check_not_found, response,
          codes.not_found, <<Entry("check_not_found", check_not_found)>>)

Gone ==
    Check("check_gone", TRUE, check_gone, response,
          codes.gone, <<Entry("check_gone", check_gone)>>)

\* The response of a 428: the no-cache headers are set before the status.
precondition_required_response(resp) ==
    set_header(set_header(resp, "Cache-Control", "no-cache"), "Pragma", "no-cache")

PreconditionRequired ==
    LET r == check_precondition_required(response)
    IN  Check("check_precondition_required",
              /\ self("require_conditional_request")
              /\ request.method \in {"PUT", "PATCH"},
              r.fails,
              IF r.fails THEN precondition_required_response(r.response)
                         ELSE r.response,
              codes.precondition_required,
              <<Entry("check_precondition_required", r.fails)>>)

PreconditionFailed ==
    Check("check_precondition_failed", request.method \in {"PUT", "PATCH"},
          check_precondition_failed, response, codes.precondition_failed,
          [i \in 1..Len(precondition_failed_calls) |->
                Entry(precondition_failed_calls[i], FALSE)]
          \o <<Entry("check_precondition_failed", check_precondition_failed)>>)

\* The conditional GET or HEAD test, inline in process().
NotModified ==
    Check("not_modified", request.method \in {"GET", "HEAD"},
          not_modified, response, codes.not_modified,
          [i \in 1..Len(not_modified_calls) |->
                Entry(not_modified_calls[i], FALSE)]
          \o <<Entry("not_modified", not_modified)>>)

\* What a handler the resource class defines does to the response.
handler_effect(resp) ==
    LET r1 == IF env.handler.data # None
              THEN [resp EXCEPT !.data = env.handler.data[1]] ELSE resp
    IN  IF env.handler.etag # None
        THEN set_header(r1, "ETag", env.handler.etag[1]) ELSE r1

\* Resource.head with the body the GET handler wrote left in place.
head_keeping_body(resp) == handler_effect(resp)

\* Resource.head: calls self.get, drops what it returns and empties the
\* body.
head(resp) == [handler_effect(resp) EXCEPT !.data = ""]

\* Call Request Method Handler.  getattr raises AttributeError when the
\* resource has no such handler; the default HEAD handler calls self.get
\* and empties the body; the others are the resource's own.
Handler ==
    LET name == lower(request.method)
        cls == classes[Len(classes)]
    IN  /\ pc = "handler"
        /\ IF ~usable(classes, cls, name)
           THEN /\ pc' = "raised"
                /\ UNCHANGED <<response, called, output>>
           ELSE IF name = "head"
           THEN IF usable(classes, cls, "get")
                THEN /\ called' = called \o <<"head", "get">>
                     /\ response' = head(response)
                     /\ output' = None
                     /\ pc' = "return"
                ELSE /\ called' = Append(called, "head")
                     /\ pc' = "raised"
                     /\ UNCHANGED <<response, output>>
           ELSE IF name = "options"
           THEN /\ called' = Append(called, "options")
                /\ response' = options(response)
                /\ output' = None
                /\ pc' = "return"
           ELSE /\ called' = Append(called, name)
                /\ response' = handler_effect(response)
                /\ output' = env.handler.ret
                /\ pc' = "return"
        /\ UNCHANGED <<classes, pending, request, env, log, others>>

\* The end of Resource.__call__: what process() returned is the body.
Return ==
    /\ pc = "return"
    /\ response' = IF output # None
                   THEN [response EXCEPT !.data = output[1]] ELSE response
    /\ pc' = "done"
    /\ UNCHANGED <<classes, pending, request, env, log, called, output, others>>

\* A thread switch with the response left where it is, as if the threads
\* wrote to one Response object.
Switch_sharing_response ==
    \E i \in 1..Len(others) :
        /\ pending = <<>>
        /\ others' = [others EXCEPT ![i] =
              [ request |-> request, env |-> env, pc |-> pc,
                response |-> others[i].response, log |-> log,
                called |-> called, output |-> output ]]
        /\ request' = others[i].request
        /\ env' = others[i].env
        /\ pc' = others[i].pc
        /\ log' = others[i].log
        /\ called' = others[i].called
        /\ output' = others[i].output
        /\ UNCHANGED <<classes, pending, response>>

\* A thread switch: the running thread is suspended between two steps and
\* another one runs.  What a dispatch holds in locals and in its own
\* request and response goes with its thread; the classes stay.
Switch ==
    \E i \in 1..Len(others) :
        /\ pending = <<>>
        /\ others' = [others EXCEPT ![i] =
              [ request |-> request, env |-> env, pc |-> pc,
                response |-> response, log |-> log,
                called |-> called, output |-> output ]]
        /\ request' = others[i].request
        /\ env' = others[i].env
        /\ pc' = others[i].pc
        /\ response' = others[i].response
        /\ log' = others[i].log
        /\ called' = others[i].called
        /\ output' = others[i].output
        /\ UNCHANGED <<classes, pending>>

\* The steps of a class statement and of a dispatch.
Steps ==
    \/ Register
    \/ ServiceUnavailable
    \/ Unauthorized
    \/ Forbidden
    \/ TooManyRequests
    \/ Options
    \/ UnsupportedMediaType
    \/ RequestEntityTooLarge
    \/ MethodNotAllowed
    \/ NotAcceptable
    \/ NotFound
    \/ Gone
    \/ PreconditionRequired
    \/ PreconditionFailed
    \/ NotModified
    \/ Handler
    \/ Return

----------------------------------------------------------------------------
(* Specifications                                                          *)

\* Requests through the whole pipeline, every check able to fail.
Init == InitOf("pipeline")

Next == Call("pipeline") \/ Steps

Spec == Init /\ [][Next]_vars

\* Conditional requests: every combination of the conditional headers, the
\* flags and the current entity tag and modification time.
InitCond == InitOf("conditional")

NextCond == Call("conditional") \/ Steps

SpecCond == InitCond /\ [][NextCond]_vars

\* Request entities: every declared length and Content-Type against every
\* max_request_entity_length.
InitEntity == InitOf("entity")

NextEntity == Call("entity") \/ Steps

SpecEntity == InitEntity /\ [][NextEntity]_vars

\* Concurrent dispatches: MaxDispatches threads call the same instance, and
\* a thread switch can fall between any two steps.
InitConc == InitOf("concurrent")

NextConc == Call("concurrent") \/ Switch \/ Steps

SpecConc == InitConc /\ [][NextConc]_vars

\* Bodies on requests that carry none by rights: the threads dispatch
\* requests that differ in their entity.
InitBodies == InitOf("bodies")

NextBodies == Call("bodies") \/ Switch \/ Steps

SpecBodies == InitBodies /\ [][NextBodies]_vars

\* Inheritance: a parent class with every allowed_methods, and a class
\* derived from it that declares none.
InitInherit == InitOf("inheritance")

NextInherit == Call("inheritance") \/ Steps

SpecInherit == InitInherit /\ [][NextInherit]_vars

\* Patches: resources whose supported_patch_types differ from their
\* supported_content_types, and PATCH, PUT and OPTIONS requests to them.
InitPatch == InitOf("patch")

NextPatch == Call("patch") \/ Steps

SpecPatch == InitPatch /\ [][NextPatch]_vars

\* Handlers: GET, HEAD and PUT requests to resources whose handlers write
\* to the response, return a value, both or neither.
InitHandlers == InitOf("handlers")

NextHandlers == Call("handlers") \/ Steps

SpecHandlers == InitHandlers /\ [][NextHandlers]_vars

\* Planned and unplanned downtime: every kind of unavailable setting, at
\* every current time.
InitAvail == InitOf("availability")

NextAvail == Call("availability") \/ Steps

SpecAvail == InitAvail /\ [][NextAvail]_vars

\* Content negotiation: every Accept header against resources supporting
\* no, one and two types, under each order werkzeug keeps the header in.
InitNeg == InitOf("negotiation")

NextNeg == Call("negotiation") \/ Steps

SpecNeg == InitNeg /\ [][NextNeg]_vars

\* Class statements: every set of handlers with every allowed_methods.
InitReg == InitOf("registration")

NextReg == Call("registration") \/ Steps

SpecReg == InitReg /\ [][NextReg]_vars

----------------------------------------------------------------------------
(* What the claims speak of.                                               *)

\* The pipeline as the specification orders it, each check with the status
\* it maps to; the OPTIONS short-circuit answers 200.
ClaimOrder ==
    << [step |-> "check_service_unavailable", status |-> 503],
       [step |-> "check_unauthorized", status |-> 401],
       [step |-> "check_forbidden", status |-> 403],
       [step |-> "check_too_many_requests", status |-> 429],
       [step |-> "options", status |-> 200],
       [step |-> "check_unsupported_media_type", status |-> 415],
       [step |-> "check_request_entity_too_large", status |-> 413],
       [step |-> "check_method_not_allowed", status |-> 405],
       [step |-> "check_not_acceptable", status |-> 406],
       [step |-> "check_not_found", status |-> 404],
       [step |-> "check_gone", status |-> 410],
       [step |-> "check_precondition_required", status |-> 428],
       [step |-> "check_precondition_failed", status |-> 412],
       [step |-> "not_modified", status |-> 304] >>

\* Whether a check of the pipeline, taken alone, would stop the current
\* request of the dispatched resource.
Fails(step) ==
    CASE step = "check_service_unavailable" ->
           check_service_unavailable(NewResponse).fails
      [] step = "check_unauthorized" -> check_unauthorized
      [] step = "check_forbidden" -> check_forbidden
      [] step = "check_too_many_requests" ->
           /\ TruthyInt(self("rate_limit_count"))
           /\ TruthyInt(self("rate_limit_seconds"))
           /\ check_too_many_requests
      [] step = "options" -> options_applies
      [] step = "check_unsupported_media_type" ->
           TruthyInt(request.content_length) /\ check_unsupported_media_type
      [] step = "check_request_entity_too_large" ->
           /\ TruthyInt(request.content_length)
           /\ TruthyInt(self("max_request_entity_length"))
           /\ check_request_entity_too_large
      [] step = "check_method_not_allowed" ->
           check_method_not_allowed(NewResponse).fails
      [] step = "check_not_acceptable" -> check_not_acceptable(NewResponse).fails
      [] step = "check_not_found" -> check_not_found
      [] step = "check_gone" -> check_gone
      [] step = "check_precondition_required" ->
           /\ self("require_conditional_request")
           /\ request.method \in {"PUT", "PATCH"}
           /\ check_precondition_required(NewResponse).fails
      [] step = "check_precondition_failed" ->
           request.method \in {"PUT", "PATCH"} /\ check_precondition_failed
      [] step = "not_modified" ->
           request.method \in {"GET", "HEAD"} /\ not_modified

\* The place of a step in ClaimOrder.
Place(step) == CHOOSE i \in 1..Len(ClaimOrder) : ClaimOrder[i].step = step

\* The first check of ClaimOrder that would stop the request, 0 if none.
FirstFailing ==
    LET failing == {i \in 1..Len(ClaimOrder) : Fails(ClaimOrder[i].step)}
    IN  IF failing = {} THEN 0
        ELSE CHOOSE i \in failing : \A j \in failing : i <= j

\* The request passes every check that precedes `step`.
EarlierPass(step) ==
    \A i \in 1..Len(ClaimOrder) : i < Place(step) => ~Fails(ClaimOrder[i].step)

\* sorted(), stated by counting: the k-th entry is the one with k - 1
\* entries before it in alphabetical order (in listed order among equals).
ClaimSorted(s) ==
    [k \in 1..Len(s) |->
        LET before(i) ==
                Cardinality({j \in 1..Len(s) :
                    \/ AlphaRank(s[j]) < AlphaRank(s[i])
                    \/ AlphaRank(s[j]) = AlphaRank(s[i]) /\ j < i})
        IN  s[CHOOSE i \in 1..Len(s) : before(i) = k - 1]]

----------------------------------------------------------------------------
(* Claims                                                                  *)

\* C1: when at least one check of the pipeline would fail, the response
\* status is the status of the earliest failing check in the order 503,
\* 401, 403, 429, (OPTIONS short-circuit), 415, 413, 405, 406, 404, 410,
\* 428, 412, 304: a later failing check never determines the status.
C1_EarliestFailingCheckDecides ==
    (pc = "done" /\ FirstFailing # 0)
        => response.status = ClaimOrder[FirstFailing].status

\* A forbidden request that a later check would stop too is answered 403.
C1_Witness ==
    /\ pc = "done"
    /\ FirstFailing = Place("check_forbidden")
    /\ Fails("check_unsupported_media_type")
    /\ Fails("check_not_found")
    /\ response.status = 403

\* C2: once a check reports failure, no later check and no accessor is
\* evaluated, no method handler is invoked, and no check is evaluated more
\* than once for the request.
C2_FailureIsTerminal ==
    /\ \A i \in 1..Len(log) :
          log[i].fails =>
              /\ i = Len(log)
              /\ called = <<>>
              /\ pc \in {"return", "done"}
    /\ \A i, j \in 1..Len(log) : i # j => log[i].check # log[j].check

\* A request stopped in the middle of the pipeline, by check_not_found.
C2_Witness ==
    /\ pc = "done"
    /\ Len(log) >= 3
    /\ log[Len(log)] = [check |-> "check_not_found", fails |-> TRUE]
    /\ called = <<>>

\* What an unavailable, unauthorized or forbidden request is answered, from
\* the resource's unavailable setting and the two predicates alone.
DeniedResponse ==
    LET r == check_service_unavailable(NewResponse)
    IN  IF r.fails THEN [r.response EXCEPT !.status = 503]
        ELSE IF env.unauthorized THEN [NewResponse EXCEPT !.status = 401]
        ELSE [NewResponse EXCEPT !.status = 403]

\* C3: existence is not leaked to unauthorized or forbidden clients: when
\* check_unauthorized or check_forbidden fails, the response (status,
\* headers, body) is a function of the request that owes nothing to the
\* outcome of the not-found and gone predicates or to the current ETag and
\* last-modified value, which are never asked; two requests that differ
\* only in those get identical responses.
C3_ExistenceNotLeaked ==
    (pc = "done" /\ (env.unauthorized \/ env.forbidden))
        => /\ response = DeniedResponse
           /\ \A i \in 1..Len(log) :
                 log[i].check \notin {"check_not_found", "check_gone",
                                      "get_etag", "get_last_modified"}

\* An unauthorized request for a resource that does not exist.
C3_Witness ==
    /\ pc = "done"
    /\ env.unauthorized
    /\ env.not_found
    /\ ~Fails("check_service_unavailable")
    /\ response.status = 401

\* The registered classes.
Registered == {classes[i] : i \in 1..Len(classes)}

\* C4: allowed_methods never contains HEAD unless it also contains GET,
\* whether derived from the handlers or given as an explicit list.
C4_HeadRequiresGet ==
    \A c \in Registered :
        "HEAD" \in Range(c.attrs.allowed_methods)
            => "GET" \in Range(c.attrs.allowed_methods)

\* The class statement names, in an explicit allow-list, a method for which
\* neither it nor a class it inherits from has a callable handler.
NamesMissingHandler(def) ==
    /\ "allowed_methods" \in DOMAIN def.attrs
    /\ \E m \in Range(def.attrs.allowed_methods) :
          \A c \in Registered \cup {def} :
              lower(m) \in DOMAIN c.attrs => c.attrs[lower(m)] # "function"

\* C5: registering a class whose explicit allow-list names a method with no
\* callable handler fails at registration; every method in the
\* allowed_methods of a registered class has a callable handler, and the
\* handler-invocation step never looks up a missing handler.
C5_AllowedMethodsHaveHandlers ==
    /\ [](\A i \in 1..Len(classes) :
            \A m \in Range(classes[i].attrs.allowed_methods) :
                usable(classes, classes[i], lower(m)))
    /\ [](pc = "handler"
            => usable(classes, classes[Len(classes)], lower(request.method)))
    /\ [][(pc = "import" /\ pending # <<>> /\ NamesMissingHandler(Head(pending)))
            => (pc' = "config_error" /\ classes' = classes)]_vars

\* A class statement that failed with the configuration error.
C5_Witness ==
    /\ pc = "config_error"
    /\ NamesMissingHandler(Head(pending))
    /\ Len(classes) = 1

\* The request is not stopped by the 503, 401, 403 or 429 checks.
NotStoppedEarly ==
    /\ ~Fails("check_service_unavailable")
    /\ ~Fails("check_unauthorized")
    /\ ~Fails("check_forbidden")
    /\ ~Fails("check_too_many_requests")

\* A 2xx response whose Allow header is the allowed methods, sorted and
\* comma-joined.
OptionsAnswered ==
    /\ response.status \in 200..299
    /\ "Allow" \in DOMAIN response.headers
    /\ response.headers["Allow"] = join(ClaimSorted(self("allowed_methods")))

\* C6, as stated: for every resource, an OPTIONS request that is not
\* stopped by the 503, 401, 403 or 429 checks returns 2xx with Allow set to
\* the allowed methods, whatever the other gating state.
C6_OptionsAlwaysAnswered ==
    (pc = "done" /\ request.method = "OPTIONS" /\ NotStoppedEarly)
        => OptionsAnswered

\* C6, amended: for every resource whose allowed_methods contains OPTIONS,
\* an OPTIONS request that is not stopped by the 503, 401, 403 or 429
\* checks returns 2xx with Allow set to the allowed methods, sorted and
\* comma-joined, whatever the other gating state.
C6_OptionsAnsweredWhenAllowed ==
    (/\ pc = "done"
     /\ request.method = "OPTIONS"
     /\ "OPTIONS" \in Range(self("allowed_methods"))
     /\ NotStoppedEarly)
        => OptionsAnswered

\* An OPTIONS request answered although its entity is of an unsupported
\* type and the resource does not exist.
C6_Witness ==
    /\ pc = "done"
    /\ request.method = "OPTIONS"
    /\ NotStoppedEarly
    /\ Fails("check_unsupported_media_type")
    /\ Fails("check_not_found")
    /\ response.status = 200
    /\ "Allow" \in DOMAIN response.headers

\* The If-Modified-Since header equals the current last-modified date.
MatchingIfModifiedSince ==
    /\ request.if_modified_since # None
    /\ request.if_modified_since[1] = http_date(env.last_modified, env.now)

\* C7: with use_etags set, a GET or HEAD request that passes all earlier
\* checks and whose If-None-Match equals the current entity tag yields 304
\* with an empty body and no handler invoked; with an If-None-Match that
\* differs (and no matching If-Modified-Since) the handler is invoked and
\* the response is the normal one.
C7_ConditionalGet ==
    (/\ pc = "done"
     /\ self("use_etags")
     /\ request.method \in {"GET", "HEAD"}
     /\ EarlierPass("not_modified")
     /\ request.if_none_match # None)
        => IF env.etag # None /\ request.if_none_match[1] = env.etag[1]
           THEN /\ response.status = 304
                /\ response.data = ""
                /\ called = <<>>
           ELSE ~MatchingIfModifiedSince
                   => /\ called # <<>>
                      /\ Head(called) = lower(request.method)
                      /\ response.status = 200
                      /\ response.data =
                            IF request.method = "GET"
                            THEN env.handler.ret[1] ELSE ""

\* A HEAD request answered 304 for its matching If-None-Match.
C7_Witness ==
    /\ pc = "done"
    /\ self("use_etags")
    /\ request.method = "HEAD"
    /\ request.if_none_match = env.etag
    /\ env.etag # None
    /\ response.status = 304
    /\ called = <<>>

\* C8: with require_conditional_request and use_etags set and
\* use_last_modified unset, a PUT or PATCH request that passes all earlier
\* checks yields 428 without If-Match, 412 with an If-Match that differs
\* from the current entity tag (no handler invoked), and proceeds to the
\* handler with an If-Match that equals it.
C8_ConditionalPut ==
    (/\ pc = "done"
     /\ self("require_conditional_request")
     /\ self("use_etags")
     /\ ~self("use_last_modified")
     /\ request.method \in {"PUT", "PATCH"}
     /\ EarlierPass("check_precondition_required"))
        => IF request.if_match = None
           THEN response.status = 428 /\ called = <<>>
           ELSE IF env.etag = None \/ request.if_match[1] # env.etag[1]
           THEN response.status = 412 /\ called = <<>>
           ELSE called = <<lower(request.method)>> /\ response.status = 200

\* A PUT answered 412 for an If-Match that is not the current entity tag.
C8_Witness ==
    /\ pc = "done"
    /\ self("require_conditional_request")
    /\ self("use_etags")
    /\ ~self("use_last_modified")
    /\ request.method = "PUT"
    /\ request.if_match = Some("xyz")
    /\ env.etag = Some("abc")
    /\ response.status = 412

\* C9: for every combination of use_etags and use_last_modified, a PUT or
\* PATCH request to a resource with require_conditional_request set that
\* supplies If-Match with ETags in use, or If-Unmodified-Since with
\* Last-Modified in use, is not rejected with 428.
C9_OneConditionalHeaderSuffices ==
    (/\ pc = "done"
     /\ self("require_conditional_request")
     /\ request.method \in {"PUT", "PATCH"}
     /\ EarlierPass("check_precondition_required")
     /\ \/ self("use_etags") /\ request.if_match # None
        \/ self("use_last_modified") /\ request.if_unmodified_since # None)
        => response.status # 428

\* C10: for a resource with a configured maximum entity length M, a request
\* that passes all earlier checks yields 413 if and only if its declared
\* content length is strictly greater than M.
C10_TooLargeIffGreater ==
    (/\ pc = "done"
     /\ self("max_request_entity_length") # None
     /\ EarlierPass("check_request_entity_too_large"))
        => (response.status = 413
              <=> /\ request.content_length # None
                  /\ request.content_length[1]
                        > self("max_request_entity_length")[1])

\* C11: a request that passes all earlier checks and whose method is not
\* in the resource's allowed methods yields 405 with the Allow header set
\* to the allowed methods sorted alphabetically and joined by ', ', and the
\* handler is not invoked; a request whose method is allowed never yields
\* 405.
C11_MethodNotAllowed ==
    pc = "done" =>
        IF request.method \in Range(self("allowed_methods"))
        THEN response.status # 405
        ELSE EarlierPass("check_method_not_allowed")
                => /\ response.status = 405
                   /\ "Allow" \in DOMAIN response.headers
                   /\ response.headers["Allow"]
                         = join(ClaimSorted(self("allowed_methods")))
                   /\ called = <<>>

\* A DELETE answered 405 by a resource that lists PUT before GET.
C11_Witness ==
    /\ pc = "done"
    /\ request.method = "DELETE"
    /\ self("allowed_methods") = <<"PUT", "GET">>
    /\ EarlierPass("check_method_not_allowed")
    /\ response.status = 405
    /\ response.headers["Allow"] = "GET, PUT"
    /\ called = <<>>

\* The entries of the Accept header, as the client listed them.
Listed == request.accept[1]

\* The places of the listed entries that name a supported type.
Overlap ==
    {i \in 1..Len(Listed) : Listed[i].value \in Range(self("supported_accept_types"))}

\* The Accept header lists at least one range, none of them a supported
\* type and none with a wildcard in it.
OnlyUnsupportedTypes ==
    /\ request.accept # None
    /\ Listed # <<>>
    /\ Overlap = {}
    /\ \A i \in 1..Len(Listed) : specificity(Listed[i].value) = 2

\* C12: for a request that passes all earlier checks and carries an Accept
\* header listing only media types that the resource does not support,
\* with no wildcard entry, the response is 406 and the handler is not
\* invoked.
C12_NegotiationFailure ==
    (pc = "done" /\ EarlierPass("check_not_acceptable") /\ OnlyUnsupportedTypes)
        => response.status = 406 /\ called = <<>>

\* The Accept header names no supported type, lists */* with a quality
\* above 0 and nowhere with quality 0.
WildcardNotZero ==
    /\ request.accept # None
    /\ Overlap = {}
    /\ \E i \in 1..Len(Listed) : Listed[i].value = "*/*" /\ Listed[i].q > 0
    /\ \A i \in 1..Len(Listed) : Listed[i].value = "*/*" => Listed[i].q # 0

\* C13: for a request whose Accept header has no entry equal to a supported
\* type but does not give the wildcard */* quality 0, negotiation succeeds
\* (no 406) and the first entry of supported_accept_types is recorded as
\* the negotiated type.  Stated for the headers that do list */*, as the
\* claim's example does: the claim speaks of the others as well.
C13_NegotiationFallback ==
    (/\ pc = "done"
     /\ EarlierPass("check_not_acceptable")
     /\ self("supported_accept_types") # <<>>
     /\ WildcardNotZero)
        => /\ response.status # 406
           /\ response.accept_type = Some(self("supported_accept_types")[1])

\* Whether, of two entries of equal quality, the one listed i-th comes no
\* later than the one listed j-th: in listed order, or in the order
\* werkzeug keeps them in (listed order when it sorts by specificity and
\* quality alone, the reverse str order of the media types when it sorts by
\* value as well).
FirstOfEqual(ties, i, j) ==
    IF ties = "listed" \/ env.accept_order = "specificity, quality" THEN i <= j
    ELSE MimeRank(Listed[i].value) >= MimeRank(Listed[j].value)

\* The supported type the client prefers: of highest quality among the
\* listed entries that name a supported type, and first among those of
\* equal quality.
Preferred(ties) ==
    Listed[CHOOSE i \in Overlap :
              \A j \in Overlap :
                  \/ Listed[i].q > Listed[j].q
                  \/ Listed[i].q = Listed[j].q /\ FirstOfEqual(ties, i, j)].value

\* The negotiated type of a finished dispatch.
NegotiatedType(ties) ==
    (pc = "done" /\ EarlierPass("check_not_acceptable"))
        => /\ request.accept = None
                => /\ response.status # 406
                   /\ response.accept_type =
                         IF self("supported_accept_types") = <<>> THEN None
                         ELSE Some(self("supported_accept_types")[1])
           /\ (request.accept # None /\ Overlap # {})
                => /\ response.status # 406
                   /\ response.accept_type = Some(Preferred(ties))

\* C14, as stated: without an Accept header the negotiated type is the
\* first entry of supported_accept_types (none if that list is empty); with
\* an Accept header that overlaps the supported types it is the first entry
\* of the client's preference list, highest quality first with ties in
\* listed order, that is also in supported_accept_types.
C14_NegotiatedTypeTiesAsListed == NegotiatedType("listed")

\* C14, amended: as above, with entries of equal quality taken in the order
\* the installed werkzeug keeps them in, which is the listed order only
\* when it sorts an Accept header by specificity and quality alone.
C14_NegotiatedType == NegotiatedType("library")

\* Of two supported types of equal quality the one listed second is
\* negotiated, under a werkzeug that sorts by value as well.
C14_Witness ==
    /\ pc = "done"
    /\ env.accept_order = "quality, value"
    /\ request.accept =
          Some(<<[value |-> "application/json", q |-> 10],
                 [value |-> "text/html", q |-> 10]>>)
    /\ self("supported_accept_types") = <<"application/json", "text/html">>
    /\ response.accept_type = Some("text/html")
    /\ response.status = 200

\* The class statement gives the attribute no value of its own: it leaves
\* it out, or sets it to None or ().
Undeclared(def, name) ==
    name \notin DOMAIN def.attrs \/ def.attrs[name] = <<>>

\* C15: for every registered resource type, a subclass of a registered type
\* that declares only its own supported_accept_types included: when the
\* type does not declare supported_content_types, its
\* supported_content_types equals its own supported_accept_types, and when
\* it does not declare supported_patch_types, its supported_patch_types
\* equals its own supported_content_types.
C15_SupportedTypesDefault ==
    [][(pc = "import" /\ pending # <<>> /\ Len(classes') = Len(classes) + 1)
          => LET def == Head(pending)
                 new_cls == classes'[Len(classes')]
             IN  /\ Undeclared(def, "supported_content_types")
                      => getattr(classes', new_cls, "supported_content_types")
                           = getattr(classes', new_cls, "supported_accept_types")
                 /\ Undeclared(def, "supported_patch_types")
                      => getattr(classes', new_cls, "supported_patch_types")
                           = getattr(classes', new_cls, "supported_content_types")]_vars

\* The unavailable setting is set: True, a seconds delta other than 0, or
\* an instant.
UnavailableIsSet ==
    LET u == self("unavailable")
    IN  \/ u.type = "bool" /\ u.n = 1
        \/ u.type = "int" /\ u.n # 0
        \/ u.type = "datetime"

\* The unavailable setting tells when the resource is back: a positive
\* seconds delta, or an instant that is still to come.
AnnouncesReturn ==
    LET u == self("unavailable")
    IN  \/ u.type = "int" /\ u.n > 0
        \/ u.type = "datetime" /\ u.n > env.now

\* C16: a request to a resource whose unavailable setting is set yields 503
\* before any other check runs, and the Retry-After header is set on that
\* response exactly when unavailable is a positive seconds-delta or an
\* absolute future instant; with unavailable = True, a non-positive delta,
\* or an instant that is not in the future, no Retry-After header is set.
C16_ServiceUnavailable ==
    (pc = "done" /\ UnavailableIsSet)
        => /\ response.status = 503
           /\ log = <<Entry("check_service_unavailable", TRUE)>>
           /\ called = <<>>
           /\ "Retry-After" \in DOMAIN response.headers <=> AnnouncesReturn

\* The request declares a body: a Content-Length other than 0.
DeclaresBody == request.content_length # None /\ request.content_length[1] # 0

Negotiated == check_not_acceptable(NewResponse).response

\* The response the running thread's request gets when it is dispatched
\* alone: a fresh response, written to by the negotiation once it is passed,
\* then by the check that stops the request, or else by the handler.
AloneResponse ==
    IF FirstFailing = 0
    THEN IF request.method = "HEAD"
         THEN [handler_effect(Negotiated) EXCEPT !.data = ""]
         ELSE IF env.handler.ret # None
         THEN [handler_effect(Negotiated) EXCEPT !.data = env.handler.ret[1]]
         ELSE handler_effect(Negotiated)
    ELSE LET step == ClaimOrder[FirstFailing].step
             written ==
                 CASE step = "check_service_unavailable" ->
                        check_service_unavailable(NewResponse).response
                   [] step = "options" -> options(NewResponse)
                   [] step = "check_method_not_allowed" ->
                        check_method_not_allowed(NewResponse).response
                   [] step = "check_precondition_required" ->
                        precondition_required_response(
                            check_precondition_required(Negotiated).response)
                   [] Place(step) > Place("check_not_acceptable") -> Negotiated
                   [] OTHER -> NewResponse
         IN  [written EXCEPT !.status = ClaimOrder[FirstFailing].status]

\* A request dispatched with no other thread about gets AloneResponse.
DispatchedAlone == (pc = "done" /\ others = <<>>) => response = AloneResponse

\* C18: no step of a dispatch modifies the resource descriptor (allowed
\* methods, supported types, flags), and for any interleaving of concurrent
\* dispatches on the same resource, each with its own request and fresh
\* response, every response equals the response that request would get if
\* dispatched alone.
C18_DispatchIsReentrant ==
    /\ [][pending = <<>> => classes' = classes]_vars
    /\ [](pc = "done" => response = AloneResponse)

\* A dispatch has finished with the 405 of its DELETE while another thread
\* is in the middle of an OPTIONS dispatch, past its first checks.
C18_Witness ==
    /\ pc = "done"
    /\ request.method = "DELETE"
    /\ response.status = 405
    /\ response.headers["Allow"] = "GET, HEAD, OPTIONS, PUT"
    /\ others[1].request.method = "OPTIONS"
    /\ others[1].pc = "options"
    /\ Len(others[1].log) >= 3

SameButEntity(r1, r2) ==
    \A f \in DOMAIN r1 :
        f \notin {"content_length", "content_type", "content_encoding",
                  "content_language"}
            => r1[f] = r2[f]

\* C20: request bodies on GET, HEAD, OPTIONS and DELETE requests are
\* ignored: for two requests with one of these methods that differ only in
\* their entity, the responses have the same status, headers and body.
C20_BodiesIgnored ==
    \A i \in 1..Len(others) :
        (/\ pc = "done"
         /\ others[i].pc = "done"
         /\ request.method \in {"GET", "HEAD", "OPTIONS", "DELETE"}
         /\ SameButEntity(request, others[i].request)
         /\ env = others[i].env)
            => /\ response.status = others[i].response.status
               /\ response.headers = others[i].response.headers
               /\ response.data = others[i].response.data

\* C21: for PATCH requests the media types accepted for decoding the
\* request entity are those of supported_patch_types, the list OPTIONS
\* advertises in Accept-Patch: a PATCH request with a body that passes the
\* earlier checks is rejected with 415 exactly when its Content-Type is not
\* in supported_patch_types.  Stated for the requests that name a media
\* type in Content-Type.
C21_PatchTypesDecidePatch ==
    (/\ pc = "done"
     /\ request.method = "PATCH"
     /\ DeclaresBody
     /\ TruthyStr(request.content_type)
     /\ EarlierPass("check_unsupported_media_type"))
        => (response.status = 415
              <=> mimetype(request.content_type)
                     \notin Range(self("supported_patch_types")))

\* The class, or the nearest class it inherits from that has the attribute,
\* holds a callable under the lower-cased name of the method.
RECURSIVE HasCallableHandler(_, _, _)
HasCallableHandler(cs, cls, m) ==
    IF lower(m) \in DOMAIN cls.attrs THEN cls.attrs[lower(m)] = "function"
    ELSE cls.base # 0 /\ HasCallableHandler(cs, cs[cls.base], m)

\* C22: allowed_methods is never inherited from a parent resource type: for
\* any chain of registrations, a subclass that does not declare
\* allowed_methods itself gets exactly the methods for which it has a
\* callable handler (with HEAD removed when GET is absent), even when its
\* parent declared a narrower explicit allow-list.
C22_AllowedMethodsNotInherited ==
    [][(/\ pc = "import"
        /\ pending # <<>>
        /\ Len(classes') = Len(classes) + 1
        /\ Undeclared(Head(pending), "allowed_methods"))
          => LET new_cls == classes'[Len(classes')]
                 allowed == new_cls.attrs.allowed_methods
             IN  /\ Range(allowed) =
                       {m \in Range(methods) :
                           /\ HasCallableHandler(classes', new_cls, m)
                           /\ m = "HEAD"
                                => HasCallableHandler(classes', new_cls, "GET")}
                 /\ Cardinality(Range(allowed)) = Len(allowed)]_vars

\* A class derived from a parent that allows GET alone although it handles
\* PUT as well: the derived class allows PUT, and its own POST.
C22_Witness ==
    /\ Len(classes) = 3
    /\ classes[2].attrs.allowed_methods = <<"GET">>
    /\ usable(classes, classes[2], "put")
    /\ classes[3].base = 2
    /\ classes[3].attrs.allowed_methods = <<"GET", "HEAD", "OPTIONS", "POST", "PUT">>

\* The Accept header lists the media type t by name, and with quality 0
\* wherever it lists it.
AssignedZero(t) ==
    /\ request.accept # None
    /\ \E i \in 1..Len(Listed) : Listed[i].value = t
    /\ \A i \in 1..Len(Listed) : Listed[i].value = t => Listed[i].q = 0

\* C23: content negotiation never records as the negotiated output type a
\* media type to which the client's Accept header assigns quality 0; a
\* request whose only overlap with supported_accept_types is an entry with
\* q=0 is not answered with that type as the chosen one.
C23_ZeroQualityNeverChosen ==
    (pc = "done" /\ response.accept_type # None)
        => ~AssignedZero(response.accept_type[1])

====
